---- MODULE Spec2Model ----
(***************************************************************************)
(* Model of the rendering-session manager and the bounded-retry renderer   *)
(* of api/generatePDFAllEnroll.js (api/generateLOA.js holds the same code  *)
(* in its lines 1-231).                                                    *)
(*                                                                         *)
(* One JavaScript process: a module-level cache (browserInstance), the     *)
(* sessions the launcher has produced, the generatePDF calls (Procs),      *)
(* cleanup() calls, and the rendering engine as the                        *)
(* environment (a session may disconnect at any time; its 'disconnected'   *)
(* event reaches the observer in a later step).  The code between two      *)
(* awaits is one atomic step; the three consecutive awaits on the page     *)
(* (setViewport, setContent, pdf) are one step, Render, since a failure of *)
(* any of them enters the same catch block with the same page open.        *)
(***************************************************************************)
EXTENDS Integers, Sequences, FiniteSets, TLC

\* ------------------------------------------------------------------ bounds

\* Number of sessions the launcher can produce in one run of the model.
MaxSessions == 2

\* The generatePDF calls of the model (concurrent or one after another).
Procs == {"r1", "r2"}

\* ------------------------------------------------------- program constants

\* let retries = 3;
MaxRetries == 3

NULL == 0

Sessions == 1..MaxSessions

VARIABLES
    browserInstance,    \* the module-level cache: NULL or a session
    sessions,           \* what the launcher has produced, by session id
    gp,                 \* the generatePDF calls, by process
    cl,                 \* the cleanup() call
    req,                \* the request the handler (module.exports) is serving
    agg                 \* the findAssocCourses call of that request

\* The variables of the handler and of its aggregation.
hvars == <<req, agg>>

vars == <<browserInstance, sessions, gp, cl, req, agg>>

\* ----------------------------------------------------------------- values

NoSession == [st |-> "none", observer |-> FALSE, pending |-> FALSE, closeRejected |-> FALSE]

NoError == [attempt |-> 0, kind |-> "none"]

\* browser.connected
Connected(ss, s) == s # NULL /\ ss[s].st = "connected"

\* Sessions launched so far are 1..Launched(ss).
Launched(ss) == Cardinality({s \in Sessions : ss[s].st # "none"})

InitProc ==
    [pc |-> "idle", retries |-> 0, page |-> NULL, browser |-> NULL,
     error |-> NoError, pdf |-> 0, result |-> 0, thrown |-> NoError,
     attempts |-> 0, waits |-> <<>>, unclosed |-> {}, closes |-> 0,
     closeFailed |-> FALSE, leaked |-> {},
     stale |-> NULL, launched |-> NULL, probe |-> "none", reusedStale |-> FALSE]

InitCleanup ==
    [pc |-> "idle", target |-> NULL, saw |-> "none", closeOk |-> FALSE,
     raised |-> FALSE, dropped |-> NULL]

\* No request received yet.
InitReq ==
    [pc |-> "idle", flow |-> "none", method |-> "none", data |-> <<>>,
     letter |-> <<>>, calls |-> <<>>, fileUrl |-> "", res |-> <<>>]

\* findAssocCourses not called yet.
InitAgg ==
    [pc |-> "idle", allCourses |-> <<>>, backing |-> <<>>, completed |-> <<>>,
     results |-> <<>>, out |-> <<>>, error |-> [kind |-> "none", child |-> 0]]

Init ==
    /\ browserInstance = NULL
    /\ sessions = [s \in Sessions |-> NoSession]
    /\ gp = [p \in Procs |-> InitProc]
    /\ cl = InitCleanup
    /\ req = InitReq
    /\ agg = InitAgg

\* ------------------------------------------------------ getBrowserInstance

\* if (!browserInstance || !browserInstance.connected)
NeedsLaunchNullOnly(bi, ss) == bi = NULL

NeedsLaunchAlways(bi, ss) == TRUE

NeedsLaunch(bi, ss) == bi = NULL \/ ~Connected(ss, bi)

\* What a rejected launch leaves in the cache and the session table.
LaunchFailCachesPartial(bi, ss) ==
    IF Launched(ss) < MaxSessions
    THEN [bi |-> Launched(ss) + 1,
          ss |-> [ss EXCEPT ![Launched(ss) + 1] =
                     [st |-> "disconnected", observer |-> TRUE,
                      pending |-> FALSE, closeRejected |-> FALSE]]]
    ELSE [bi |-> NULL, ss |-> ss]

LaunchFailEffect(bi, ss) == [bi |-> bi, ss |-> ss]

\* ------------------------------------------------------------- generatePDF

\* const waitTime = (4 - retries) * 1000;   (retries already decremented)
waitTimeConstant(retries) == 1000

waitTime(retries) == (4 - retries) * 1000

\* if (retries === 0) { ... throw error; }
ExhaustedNever(retries) == FALSE

Exhausted(retries) == retries = 0

\* The record of the getBrowserInstance call of an attempt (stale: the cached
\* session that reported disconnected when the call began; launched: the
\* session the call launched; probe: the outcome of its health probe) is kept
\* while the call's result is in use and dropped with the attempt's next step.
GbiDone(r) ==
    [r EXCEPT !.stale = NULL, !.launched = NULL, !.probe = "none"]

\* if (browserInstance && !browserInstance.connected) { browserInstance = null; }
ForceNewNever(bi, ss) == bi

ForceNewAlways(bi, ss) == NULL

ForceNew(bi, ss) == IF bi # NULL /\ ~Connected(ss, bi) THEN NULL ELSE bi

\* The catch block from "Force new browser if disconnected" on: the page is
\* closed and forgotten by now, so the finally block that follows finds no
\* page and does nothing.
CatchTail(r, bi, ss) ==
    LET bi2 == ForceNew(bi, ss)
        n   == r.retries - 1
        r0  == [GbiDone(r) EXCEPT !.retries = n, !.browser = NULL]
    IN  IF Exhausted(n)
        THEN [r  |-> [r0 EXCEPT !.thrown = r.error, !.leaked = {}, !.pc = "thrown"],
              bi |-> bi2]
        ELSE [r  |-> [r0 EXCEPT !.waits = Append(@, waitTime(n)), !.pc = "backoff"],
              bi |-> bi2]

\* Entry of the catch block with the error of the running attempt: an opened
\* page is closed first (an await), otherwise the block runs through.
CatchEntryNoClose(r, kind, bi, ss) ==
    CatchTail([r EXCEPT !.error = [attempt |-> r.attempts, kind |-> kind],
                        !.page = NULL], bi, ss)

CatchEntry(r, kind, bi, ss) ==
    LET r1 == [r EXCEPT !.error = [attempt |-> r.attempts, kind |-> kind]]
    IN  IF r.page # NULL
        THEN [r |-> [r1 EXCEPT !.pc = "catchClose"], bi |-> bi]
        ELSE CatchTail(r1, bi, ss)

\* getBrowserInstance has returned v: the connected check of the caller and,
\* when it passes, the call of browser.newPage().
\* reusedStale records that a call handed out the very session that reported
\* disconnected when the call began.
AfterGbi(r, v, bi, ss) ==
    LET r1 == [r EXCEPT !.browser = v,
                        !.reusedStale = @ \/ (v # NULL /\ v = r.stale)]
    IN  IF v = NULL
        THEN CatchEntry(r1, "typeError", bi, ss)
        ELSE IF ~Connected(ss, v)
        THEN CatchEntry(r1, "disconnected", bi, ss)
        ELSE [r |-> [r1 EXCEPT !.pc = "newPage"], bi |-> bi]

\* try { const browser = await getBrowserInstance(); ...
TryGetBrowser(r, bi, ss) ==
    LET r1 == [r EXCEPT !.attempts = @ + 1,
                        !.stale = IF bi # NULL /\ ~Connected(ss, bi) THEN bi ELSE NULL,
                        !.launched = NULL, !.browser = NULL,
                        !.probe = "none",
                        !.error = NoError, !.closes = 0, !.closeFailed = FALSE]
    IN  IF NeedsLaunch(bi, ss)
        THEN [r |-> [r1 EXCEPT !.pc = "launching"], bi |-> bi]
        ELSE AfterGbi(r1, bi, bi, ss)

\* while (retries > 0) { ... }  and, past the loop, the implicit return.
LoopHead(r, bi, ss) ==
    IF r.retries > 0
    THEN TryGetBrowser(r, bi, ss)
    ELSE [r |-> [r EXCEPT !.pc = "returned", !.result = 0], bi |-> bi]

Apply(p, e) ==
    /\ gp' = [gp EXCEPT ![p] = e.r]
    /\ browserInstance' = e.bi

\* generatePDF(html, options) is called.
Call(p) ==
    /\ gp[p].pc = "idle"
    /\ Apply(p, LoopHead([gp[p] EXCEPT !.retries = MaxRetries, !.page = NULL],
                         browserInstance, sessions))
    /\ UNCHANGED <<sessions, cl>>
    /\ UNCHANGED hvars

\* browserInstance = await puppeteer.launch(launchConfig) resolves; the
\* observer is registered and the health probe's newPage() is called.
LaunchOk(p) ==
    /\ gp[p].pc = "launching"
    /\ Launched(sessions) < MaxSessions
    /\ LET s == Launched(sessions) + 1
       IN  /\ sessions' = [sessions EXCEPT ![s] =
                              [st |-> "connected", observer |-> TRUE,
                               pending |-> FALSE, closeRejected |-> FALSE]]
           /\ browserInstance' = s
           /\ gp' = [gp EXCEPT ![p].launched = s, ![p].pc = "probeOpen"]
    /\ UNCHANGED cl
    /\ UNCHANGED hvars

\* chromium.executablePath() or puppeteer.launch() rejects: getBrowserInstance
\* rejects.
LaunchFail(p) ==
    /\ gp[p].pc = "launching"
    /\ LET e == LaunchFailEffect(browserInstance, sessions)
       IN  /\ browserInstance' = e.bi
           /\ sessions' = e.ss
    /\ gp' = [gp EXCEPT ![p].pc = "gbiRejected"]
    /\ UNCHANGED cl
    /\ UNCHANGED hvars

\* The rejection reaches the catch block of generatePDF.
GbiRejected(p) ==
    /\ gp[p].pc = "gbiRejected"
    /\ Apply(p, CatchEntry(gp[p], "launch", browserInstance, sessions))
    /\ UNCHANGED <<sessions, cl>>
    /\ UNCHANGED hvars

\* const testPage = await browserInstance.newPage();
ProbeNewPage(p) ==
    /\ gp[p].pc = "probeOpen"
    /\ \E ok \in BOOLEAN :
          /\ ok => Connected(sessions, gp[p].launched)
          /\ IF ok
             THEN Apply(p, [r |-> [gp[p] EXCEPT !.pc = "probeClose"],
                            bi |-> browserInstance])
             ELSE Apply(p, AfterGbi([gp[p] EXCEPT !.probe = "failed"],
                                    browserInstance, browserInstance, sessions))
    /\ UNCHANGED <<sessions, cl>>
    /\ UNCHANGED hvars

\* await testPage.close(); then return browserInstance;
ProbeClose(p) ==
    /\ gp[p].pc = "probeClose"
    /\ \E ok \in BOOLEAN :
          /\ ok => Connected(sessions, gp[p].launched)
          /\ Apply(p, AfterGbi([gp[p] EXCEPT !.probe = IF ok THEN "passed" ELSE "failed"],
                               browserInstance, browserInstance, sessions))
    /\ UNCHANGED <<sessions, cl>>
    /\ UNCHANGED hvars

\* page = await browser.newPage();
NewPage(p) ==
    /\ gp[p].pc = "newPage"
    /\ \E ok \in BOOLEAN :
          /\ ok => Connected(sessions, gp[p].browser)
          /\ IF ok
             THEN Apply(p, [r |-> [GbiDone(gp[p]) EXCEPT
                                      !.page = gp[p].attempts,
                                      !.unclosed = @ \cup {gp[p].attempts},
                                      !.pc = "render"],
                            bi |-> browserInstance])
             ELSE Apply(p, CatchEntry(GbiDone(gp[p]), "newPage",
                                      browserInstance, sessions))
    /\ UNCHANGED <<sessions, cl>>
    /\ UNCHANGED hvars

\* await page.setViewport({...}); await page.setContent(html, {...});
\* const pdf = await page.pdf({...}); return pdf;  and the finally block,
\* which finds the page and calls page.close().
Render(p) ==
    /\ gp[p].pc = "render"
    /\ \E ok \in BOOLEAN :
          /\ ok => Connected(sessions, gp[p].browser)
          /\ IF ok
             THEN Apply(p, [r |-> [gp[p] EXCEPT !.pdf = gp[p].attempts,
                                                !.pc = "finallyClose"],
                            bi |-> browserInstance])
             ELSE Apply(p, CatchEntry(gp[p], "render", browserInstance, sessions))
    /\ UNCHANGED <<sessions, cl>>
    /\ UNCHANGED hvars

\* page = null;  at the end of the catch block's cleanup
ForgetPageNever(page) == page

ForgetPage(page) == NULL

\* A page whose close() rejected while its session is connected is left open
\* on that session: leaked holds, for the duration of the call, the sessions
\* on which the call has left such a page.
CloseOutcome(r, ok, ss) ==
    [r EXCEPT !.unclosed = @ \ {r.page},
              !.closes = @ + 1,
              !.closeFailed = ~ok,
              !.leaked = IF ~ok /\ Connected(ss, r.browser)
                         THEN @ \cup {r.browser} ELSE @]

\* catch: try { await page.close(); } catch (closeError) {...}  page = null;
\* and the rest of the catch block.
CatchClose(p) ==
    /\ gp[p].pc = "catchClose"
    /\ \E ok \in BOOLEAN :
          /\ ok => Connected(sessions, gp[p].browser)
          /\ Apply(p, CatchTail([CloseOutcome(gp[p], ok, sessions) EXCEPT
                                    !.page = ForgetPage(gp[p].page)],
                                browserInstance, sessions))
    /\ UNCHANGED <<sessions, cl>>
    /\ UNCHANGED hvars

\* finally: try { await page.close(); } catch (closeError) {...}  and the
\* pending return completes.
FinallyClose(p) ==
    /\ gp[p].pc = "finallyClose"
    /\ \E ok \in BOOLEAN :
          /\ ok => Connected(sessions, gp[p].browser)
          /\ gp' = [gp EXCEPT ![p] = [CloseOutcome(gp[p], ok, sessions) EXCEPT
                                          !.result = gp[p].pdf,
                                          !.page = NULL,
                                          !.browser = NULL,
                                          !.leaked = {},
                                          !.pc = "returned"]]
    /\ UNCHANGED <<browserInstance, sessions, cl>>
    /\ UNCHANGED hvars

\* await new Promise(resolve => setTimeout(resolve, waitTime)) resolves; the
\* finally block finds no page; the loop goes round.
BackoffDone(p) ==
    /\ gp[p].pc = "backoff"
    /\ Apply(p, LoopHead(gp[p], browserInstance, sessions))
    /\ UNCHANGED <<sessions, cl>>
    /\ UNCHANGED hvars

\* ------------------------------------------------------------- environment

\* The rendering engine goes away: Session.connected turns false and the
\* 'disconnected' event is emitted to the registered observer.
Disconnect(s) ==
    /\ sessions[s].st = "connected"
    /\ sessions' = [sessions EXCEPT ![s].st = "disconnected",
                                    ![s].pending = sessions[s].observer,
                                    ![s].closeRejected = FALSE]
    /\ UNCHANGED <<browserInstance, gp, cl>>
    /\ UNCHANGED hvars

\* browserInstance.on('disconnected', () => { browserInstance = null; })
DisconnectedEvent(s) ==
    /\ sessions[s].pending
    /\ sessions' = [sessions EXCEPT ![s].pending = FALSE]
    /\ browserInstance' = NULL
    /\ UNCHANGED <<gp, cl>>
    /\ UNCHANGED hvars

\* ------------------------------------------------------------------ cleanup

\* if (browserInstance && browserInstance.connected)
CleanupGuard(bi, ss) == bi # NULL /\ Connected(ss, bi)

\* try { await browserInstance.close(); } catch (error) { console.error(...) }
CloseErrorCaught == TRUE

\* finally { browserInstance = null; }
CleanupFinallyOnSuccessOnly(ok, bi) == IF ok THEN NULL ELSE bi

CleanupFinally(ok, bi) == NULL

\* cleanup() is called: the guard and, when it passes, browserInstance.close().
CleanupCall ==
    /\ cl.pc = "idle"
    /\ IF CleanupGuard(browserInstance, sessions)
       THEN /\ cl' = [pc |-> "closing", target |-> browserInstance,
                      saw |-> "connected", closeOk |-> FALSE, raised |-> FALSE,
                      dropped |-> NULL]
       ELSE /\ cl' = [pc |-> "done", target |-> NULL,
                      saw |-> IF browserInstance = NULL THEN "none" ELSE "disconnected",
                      closeOk |-> FALSE, raised |-> FALSE, dropped |-> NULL]
    /\ UNCHANGED <<browserInstance, sessions, gp>>
    /\ UNCHANGED hvars

\* await browserInstance.close() resolves or rejects (caught and logged); the
\* finally block clears the cache.  dropped records a session other than the
\* one close() was called on that the finally block took out of the cache.
CleanupClose ==
    /\ cl.pc = "closing"
    /\ \E ok \in BOOLEAN :
          /\ sessions' = IF ok
                         THEN [sessions EXCEPT
                                  ![cl.target].st = "disconnected",
                                  ![cl.target].pending =
                                      @ \/ (sessions[cl.target].st = "connected"
                                            /\ sessions[cl.target].observer)]
                         ELSE [sessions EXCEPT
                                  ![cl.target].closeRejected =
                                      sessions[cl.target].st = "connected"]
          /\ browserInstance' = CleanupFinally(ok, browserInstance)
          /\ cl' = [cl EXCEPT !.pc = "done", !.closeOk = ok, !.target = NULL,
                              !.raised = ~ok /\ ~CloseErrorCaught,
                              !.dropped =
                                  IF /\ browserInstance \notin {NULL, cl.target}
                                     /\ CleanupFinally(ok, browserInstance) = NULL
                                  THEN browserInstance ELSE NULL]
    /\ UNCHANGED gp
    /\ UNCHANGED hvars

\* The caller of cleanup() sees it complete; cleanup() can be called again
\* (SIGINT, SIGTERM, exit, uncaughtException, unhandledRejection).
CleanupReturn ==
    /\ cl.pc = "done"
    /\ cl' = InitCleanup
    /\ UNCHANGED <<browserInstance, sessions, gp>>
    /\ UNCHANGED hvars

\* ---------------------------------------------------------- specification

\* A generatePDF call that has started and not yet ended.
InFlight(p) == gp[p].pc \notin {"idle", "returned", "thrown"}

\* Requests handled one at a time: a call starts when no other is in flight.
SerialCall(p) ==
    /\ \A q \in Procs \ {p} : ~InFlight(q)
    /\ Call(p)

Step(p) ==
    \/ LaunchOk(p)
    \/ LaunchFail(p)
    \/ GbiRejected(p)
    \/ ProbeNewPage(p)
    \/ ProbeClose(p)
    \/ NewPage(p)
    \/ Render(p)
    \/ CatchClose(p)
    \/ FinallyClose(p)
    \/ BackoffDone(p)

Env ==
    \/ \E s \in Sessions : Disconnect(s)
    \/ \E s \in Sessions : DisconnectedEvent(s)
    \/ CleanupCall
    \/ CleanupClose
    \/ CleanupReturn

\* generatePDF calls one after another, with cleanup() and the rendering
\* engine's events at any time.
NextSerial ==
    \/ \E p \in Procs : SerialCall(p)
    \/ \E p \in Procs : Step(p)
    \/ Env

Spec == Init /\ [][NextSerial]_vars

\* generatePDF calls that overlap.
Next ==
    \/ \E p \in Procs : Call(p)
    \/ \E p \in Procs : Step(p)
    \/ Env

SpecConcurrent == Init /\ [][Next]_vars

\* ------------------------------------------------------- strings and dates

\* A JavaScript string is the sequence of its characters.
UpperCase ==
    <<"A", "B", "C", "D", "E", "F", "G", "H", "I", "J", "K", "L", "M",
      "N", "O", "P", "Q", "R", "S", "T", "U", "V", "W", "X", "Y", "Z">>

LowerCase ==
    <<"a", "b", "c", "d", "e", "f", "g", "h", "i", "j", "k", "l", "m",
      "n", "o", "p", "q", "r", "s", "t", "u", "v", "w", "x", "y", "z">>

\* String.prototype.toLowerCase
toLowerCase(s) ==
    [i \in 1..Len(s) |->
        IF \E k \in 1..Len(UpperCase) : UpperCase[k] = s[i]
        THEN LowerCase[CHOOSE k \in 1..Len(UpperCase) : UpperCase[k] = s[i]]
        ELSE s[i]]

\* String.prototype.includes
includes(s, sub) ==
    \E i \in 0..(Len(s) - Len(sub)) : SubSeq(s, i + 1, i + Len(sub)) = sub

Digits == <<"0", "1", "2", "3", "4", "5", "6", "7", "8", "9">>

IsDigit(c) == \E k \in 1..Len(Digits) : Digits[k] = c

DigitValue(c) == (CHOOSE k \in 1..Len(Digits) : Digits[k] = c) - 1

\* Not-a-number, and the time value of an invalid Date.
NaN == -1

RECURSIVE DecimalValue(_)
DecimalValue(s) ==
    IF s = <<>> THEN 0
    ELSE 10 * DecimalValue(SubSeq(s, 1, Len(s) - 1)) + DigitValue(s[Len(s)])

\* Number(value) of a string: the empty string is 0, a string of decimal
\* digits is its value, any other string of the model is NaN.
Number(s) ==
    IF \A i \in 1..Len(s) : IsDigit(s[i]) THEN DecimalValue(s) ELSE NaN

MsPerDay == 86400000

\* new Date(string).getTime() of a date-only ISO string "1970-01-DD" (UTC
\* midnight of that day); any other string of the model is an invalid Date.
DateParse(s) ==
    IF /\ Len(s) = 10
       /\ SubSeq(s, 1, 8) = <<"1", "9", "7", "0", "-", "0", "1", "-">>
       /\ \A i \in {9, 10} : IsDigit(s[i])
       /\ DecimalValue(SubSeq(s, 9, 10)) \in 1..24
    THEN (DecimalValue(SubSeq(s, 9, 10)) - 1) * MsPerDay
    ELSE NaN

\* A property of a payload or of a record of the store: absent (undefined)
\* or a string.
Absent == [present |-> FALSE, s |-> <<>>]

Str(s) == [present |-> TRUE, s |-> s]

\* !value is false: the property is there and is not the empty string.
Truthy(v) == v.present /\ v.s # <<>>

\* The outcome of a function that can throw.
Thrown(msg) == [ok |-> FALSE, msg |-> msg]

Returned(v) == [ok |-> TRUE, v |-> v]

\* formatDateToLongDate(dateValue, { timeZone }) of the enrollment handler:
\* the formatted date is the pair of the instant and the time zone.
formatDateToLongDate(dateValue, timeZone) ==
    IF ~Truthy(dateValue)
    THEN Thrown("Date value is empty or null")
    ELSE LET d == IF includes(dateValue.s, <<"-">>)
                  THEN DateParse(dateValue.s)
                  ELSE Number(dateValue.s)
         IN  IF d = NaN
             THEN Thrown("Invalid date format")
             ELSE Returned([ms |-> d, timeZone |-> timeZone])

\* null where the code holds a string otherwise: like the empty string it is
\* falsy, and no string of the two tables is empty.
NullString == ""

\* course_mapper, in the order of Object.entries.
course_mapper ==
    <<[key |-> <<"A", "F", "K">>,
        name |-> "AFK", val |-> "Assessment of Fundemental Knowledge Course"],
       [key |-> <<"A", "C", "J">>,
        name |-> "ACJ", val |-> "Assessment of Clinical Judgment Course"],
       [key |-> <<"A", "D", "T">>,
        name |-> "ADT", val |-> "Advanced Dental Admission Test Course"],
       [key |-> <<"I", "N", "B", "D", "E">>,
        name |-> "INBDE", val |-> "Integrated National Board Dental Examination Course"],
       [key |-> <<"B", "R", "D">>,
        name |-> "BRD", val |-> "Virtual OSCE"],
       [key |-> <<"C", "l", "i", "n", "i", "c", "a", "l">>,
        name |-> "Clinical", val |-> "NDECC Clinical Skills Course"],
       [key |-> <<"B", "9">>,
        name |-> "B9", val |-> "NDECC Clinical Skills Course"],
       [key |-> <<"S", "i", "t", "u", "a", "t", "i", "o", "n", "a", "l">>,
        name |-> "Situational", val |-> "NDECC Situational Judgment Course"],
       [key |-> <<"S", "i", "t", "P", "r", "a", "c", "t", "i", "c", "e">>,
        name |-> "SitPractice", val |-> "NDECC Situational Practice Course"],
       [key |-> <<"S", "i", "m", "P", "a", "c", "k">>,
        name |-> "SimPack", val |-> "NDECC Simulation Package Course"],
       [key |-> <<"S", "i", "m">>,
        name |-> "Sim", val |-> "NDECC Simulation Situational Course"]>>

\* mapCourse(courseID): the value of the first key, in table order, whose
\* lower-cased form occurs in the lower-cased course code; null if none.
mapCourse(courseID) ==
    IF ~Truthy(courseID) THEN NullString
    ELSE LET lower == toLowerCase(courseID.s)
             hits  == {k \in 1..Len(course_mapper) :
                          includes(lower, toLowerCase(course_mapper[k].key))}
         IN  IF hits = {} THEN NullString
             ELSE course_mapper[CHOOSE k \in hits : \A j \in hits : k <= j].val

\* The display name course_mapper gives to a key.
CourseName(name) ==
    course_mapper[CHOOSE k \in 1..Len(course_mapper) :
                     course_mapper[k].name = name].val

\* location_mapper of findLocation.
location_mapper ==
    <<[key |-> <<"M", "i", "s", "s", "i", "s", "s", "a", "u", "g", "a">>,
       val |-> "200-1515 Matheson Blvd Mississauga, ON L4W 2P5"],
      [key |-> <<"B", "9">>,
       val |-> "200-1515 Matheson Blvd Mississauga, ON L4W 2P5"],
      [key |-> <<"O", "n", "l", "i", "n", "e">>,
       val |-> "200-1515 Matheson Blvd Mississauga, ON L4W 2P5"],
      [key |-> <<"V", "a", "n", "c", "o", "u", "v", "e", "r">>,
       val |-> "522 Seventh Street, Unit 100, New Westminster, BC V3M 5T5"],
      [key |-> <<"M", "o", "n", "t", "r", "e", "a", "l">>,
       val |-> "6540 Chemin de la Cote-de-Liesse Saint-Laurent, QC H4T 1E3"],
      [key |-> <<"C", "a", "l", "g", "a", "r", "y">>,
       val |-> "518 9 Ave SE, Calgary, AB T2G 0S1"]>>

\* location_mapper[location]: undefined when the property is absent or is
\* not a key of the table.
LocationLookup(location) ==
    IF location.present /\ \E k \in 1..Len(location_mapper) : location_mapper[k].key = location.s
    THEN location_mapper[CHOOSE k \in 1..Len(location_mapper) :
                            location_mapper[k].key = location.s].val
    ELSE NullString

\* findLocation(location) of the enrollment handler:
\* location_mapper[location] || null.
findLocation(location) == LocationLookup(location)

\* -------------------------------------------------------- findAssocCourses

\* .slice(0, 8)
MaxCourses == 8

\* Children the association fetch can return in the model.
MaxAssoc == 3

\* Creation instants of the children of the model (createdate).
MaxStamp == 2

\* Strings of the records of the model.
DateIso == Str(<<"1", "9", "7", "0", "-", "0", "1", "-", "0", "3">>)

DateEpoch == Str(<<"8", "6", "4", "0", "0", "0", "0", "0">>)

DateWords == Str(<<"s", "o", "o", "n">>)

CodeAFK == Str(<<"A", "F", "K", "-", "2", "0", "2", "4">>)

CodeB9SitPractice == Str(<<"B", "9", "-", "S", "i", "t", "P", "r", "a", "c", "t", "i", "c", "e", "-", "2", "0", "2", "4">>)

CodeUnknown == Str(<<"X", "Y", "Z">>)

Calgary == Str(<<"C", "a", "l", "g", "a", "r", "y">>)

\* The properties of a child whose detail is complete.
ValidProps ==
    {[course_start_date |-> DateIso, course_end_date |-> DateEpoch,
      course_id |-> c, location |-> Calgary, createdate |-> t] :
        c \in {CodeAFK, CodeB9SitPractice}, t \in {NULL} \cup (1..MaxStamp)}

SomeValid == CHOOSE p \in ValidProps : p.course_id = CodeAFK /\ p.createdate = 1

\* The properties of a child the aggregation skips: a required property is
\* missing, a date does not parse, or the course code is unknown.
SkippedProps ==
    {[SomeValid EXCEPT !.course_start_date = Absent],
     [SomeValid EXCEPT !.course_end_date = Absent],
     [SomeValid EXCEPT !.course_end_date = Str(<<>>)],
     [SomeValid EXCEPT !.course_id = Absent],
     [SomeValid EXCEPT !.course_start_date = DateWords],
     [SomeValid EXCEPT !.course_id = CodeUnknown]}

\* What the detail fetch of a child yields: a network/HTTP error or the
\* properties of the child.
NetworkError == [fetch |-> "error", props |-> <<>>]

FetchOutcomes ==
    {NetworkError} \cup {[fetch |-> "ok", props |-> p] : p \in ValidProps \cup SkippedProps}

\* null in the array of course records.
NullCourse ==
    [courseID |-> NullString, duration |-> <<>>, location |-> NullString,
     createDate |-> 0, hubspotId |-> NULL]

\* findCourseProps(courseID) on a response with these properties: the course
\* record, or null for a child that is skipped.
findCoursePropsNoSkip(courseID, props) ==
    [courseID   |-> mapCourse(props.course_id),
     duration   |-> <<props.course_start_date, props.course_end_date>>,
     location   |-> findLocation(props.location),
     createDate |-> IF props.createdate # NULL THEN props.createdate ELSE 0,
     hubspotId  |-> courseID]

findCourseProps(courseID, props) ==
    IF ~Truthy(props.course_start_date) \/ ~Truthy(props.course_end_date)
          \/ ~Truthy(props.course_id)
    THEN NullCourse
    ELSE LET endDate   == formatDateToLongDate(props.course_end_date, "America/Toronto")
             startDate == formatDateToLongDate(props.course_start_date, "America/Toronto")
             fullCourseName == mapCourse(props.course_id)
         IN  IF ~endDate.ok \/ ~startDate.ok THEN NullCourse
             ELSE IF fullCourseName = NullString THEN NullCourse
             ELSE [courseID   |-> fullCourseName,
                   duration   |-> <<startDate.v, endDate.v>>,
                   location   |-> findLocation(props.location),
                   createDate |-> IF props.createdate # NULL THEN props.createdate ELSE 0,
                   hubspotId  |-> courseID]

\* The array Promise.all resolves with holds the value of findCourseProps for
\* each element of allCourses, in the order of allCourses, whatever the order
\* in which the fetches completed (completed).
PromiseAllCompletionOrder(allCourses, completed, backing) ==
    [i \in 1..Len(completed) |-> findCourseProps(completed[i], backing[completed[i]].props)]

PromiseAll(allCourses, completed, backing) ==
    [i \in 1..Len(allCourses) |-> findCourseProps(allCourses[i], backing[allCourses[i]].props)]

\* results.filter(course => course !== null)
FilterNull(results) == SelectSeq(results, LAMBDA course : course # NullCourse)

\* (a, b) => b.createDate.getTime() - a.createDate.getTime()
CompareAscending(a, b) == a.createDate - b.createDate

Compare(a, b) == b.createDate - a.createDate

\* Array.prototype.sort with Compare: a stable sort, an element goes behind
\* every element that does not sort after it.
RECURSIVE InsertSorted(_, _)
InsertSorted(sorted, x) ==
    IF sorted = <<>> THEN <<x>>
    ELSE IF Compare(Head(sorted), x) <= 0
         THEN <<Head(sorted)>> \o InsertSorted(Tail(sorted), x)
         ELSE <<x>> \o sorted

RECURSIVE Sort(_)
Sort(results) ==
    IF results = <<>> THEN <<>>
    ELSE InsertSorted(Sort(SubSeq(results, 1, Len(results) - 1)), results[Len(results)])

\* .slice(0, n)
Slice(s, n) == SubSeq(s, 1, IF Len(s) < n THEN Len(s) ELSE n)

\* results.sort(...).slice(0, 8)
SortOnly(results) == Sort(results)

limitedResults(results) == Slice(Sort(results), MaxCourses)

\* ----------------------------------------------------- the request handlers

\* The generatePDF call of the request.
ReqProc == "r1"

Methods == {"OPTIONS", "GET", "POST", "PUT"}

\* const requiredFields = [...] of the enrollment-letter handler.
requiredFields == <<"firstname", "lastname", "recordID", "student_id">>

\* The payloads of the model: each required property absent, empty or set.
EnrollPayloads ==
    [{requiredFields[i] : i \in 1..Len(requiredFields)} ->
        {Absent, Str(<<>>), Str(<<"x">>)}]

\* requiredFields.filter(field => !data[field])
missingFields(fields, data) == SelectSeq(fields, LAMBDA field : ~Truthy(data[field]))

\* res.status(status).json(body) and the return that follows it.
Respond(r, status, body) ==
    [r EXCEPT !.res = Append(@, [status |-> status, body |-> body]), !.pc = "done"]

\* The catch block of the handler.
InternalErrorEscapes(r, message) == [r EXCEPT !.pc = "rejected"]

InternalError(r, message) ==
    Respond(r, 500, [error |-> "Internal server error", message |-> message,
                     success |-> FALSE, timestamp |-> "now"])

\* if (req.method === 'GET') return res.status(200).json({...})
HealthCheckFallsThrough(r) == [r EXCEPT !.pc = "render"]

HealthCheck(r) ==
    Respond(r, 200, [status |-> "PDF Generation API running", timestamp |-> "now",
                     service |-> "PDF Generation Service"])

\* if (missingFields.length > 0) return res.status(400)... ; otherwise the
\* handler goes on.
ValidateAlways(r, fields, data, goOn) == goOn

Validate(r, fields, data, goOn) ==
    IF Len(missingFields(fields, data)) > 0
    THEN Respond(r, 400, [error |-> "Missing required fields",
                          missingFields |-> missingFields(fields, data),
                          receivedData |-> data])
    ELSE goOn

\* module.exports of generatePDFAllEnroll.js up to the first await: the
\* method dispatch, the validation of the payload and the call of
\* findAssocCourses, which sends the association fetch.
ReceiveEnroll ==
    /\ req.pc = "idle"
    /\ \E method \in Methods :
         LET r == [req EXCEPT !.flow = "enroll", !.method = method]
         IN  \/ /\ method = "OPTIONS"
                /\ req' = Respond(r, 200, [ended |-> TRUE])
                /\ agg' = agg
             \/ /\ method = "GET"
                /\ req' = HealthCheck(r)
                /\ agg' = agg
             \/ /\ method \notin {"OPTIONS", "GET", "POST"}
                /\ req' = Respond(r, 405, [error |-> "Method not allowed"])
                /\ agg' = agg
             \/ /\ method = "POST"
                /\ \E data \in EnrollPayloads :
                     LET r1 == [r EXCEPT !.data = data]
                         goOn == [r1 EXCEPT !.pc = "agg",
                                            !.calls = Append(@, "assocFetch")]
                     IN  /\ req' = Validate(r1, requiredFields, data, goOn)
                         /\ agg' = IF req'.pc = "agg"
                                   THEN [InitAgg EXCEPT !.pc = "assoc"]
                                   ELSE agg
    /\ UNCHANGED <<browserInstance, sessions, gp, cl>>

\* findAssocCourses throws: every catch block on the way rethrows.
AggFailed(a, kind, child) ==
    [a EXCEPT !.pc = "failed", !.error = [kind |-> kind, child |-> child]]

RECURSIVE Repeat(_, _)
Repeat(x, n) == IF n = 0 THEN <<>> ELSE <<x>> \o Repeat(x, n - 1)

\* The association fetch settles: it fails, it answers without results, or
\* it answers with the ids of the children; with at least one child the
\* detail fetches of all children are sent.
AssocSettles ==
    /\ agg.pc = "assoc"
    /\ \/ /\ agg' = AggFailed(agg, "Failed fetching associations", 0)
          /\ req' = req
       \/ /\ agg' = AggFailed(agg, "HubSpot API did not return expected association data", 0)
          /\ req' = req
       \/ /\ agg' = AggFailed(agg, "Trainee has no valid enrollments", 0)
          /\ req' = req
       \/ \E n \in 1..MaxAssoc : \E backing \in [1..n -> FetchOutcomes] :
            /\ agg' = [agg EXCEPT !.pc = "fetching",
                                  !.allCourses = [i \in 1..n |-> i],
                                  !.backing = backing]
            /\ req' = [req EXCEPT !.calls = @ \o Repeat("childFetch", n)]
    /\ UNCHANGED <<browserInstance, sessions, gp, cl>>

\* The try block of findCourseProps throws (its catch block rethrows): the
\* fetch failed.  A skipped child returns null from inside the try block.
FetchRejectsOnSkip(outcome) ==
    outcome.fetch = "error" \/ outcome.props \in SkippedProps

FetchRejects(outcome) == outcome.fetch = "error"

\* The child named by the error that rejects Promise.all, when the fetch of
\* child c fails after the fetches in completed have settled.
FailedChildFirstSettled(c, completed) == completed[1]

FailedChild(c, completed) == c

\* The detail fetch of child c settles.  A failed fetch rejects Promise.all
\* at once; the last successful one resolves it, and the null results are
\* filtered out.  A fetch that settles after the rejection changes nothing.
ChildSettles(c) ==
    /\ agg.pc \in {"fetching", "failed"}
    /\ \E i \in 1..Len(agg.allCourses) : agg.allCourses[i] = c
    /\ \A i \in 1..Len(agg.completed) : agg.completed[i] # c
    /\ LET completed == Append(agg.completed, c)
           a == [agg EXCEPT !.completed = completed]
       IN  agg' = IF agg.pc = "failed" THEN a
                  ELSE IF FetchRejects(agg.backing[c])
                  THEN AggFailed(a, "Failed fetching course", FailedChild(c, completed))
                  ELSE IF Len(completed) = Len(agg.allCourses)
                  THEN [a EXCEPT !.pc = "collected",
                                 !.results = FilterNull(PromiseAll(agg.allCourses, completed,
                                                                   agg.backing))]
                  ELSE a
    /\ UNCHANGED <<browserInstance, sessions, gp, cl, req>>

\* Sort by creation date (most recent first), limit to 8, return.
RankAndCap ==
    /\ agg.pc = "collected"
    /\ agg' = [agg EXCEPT !.pc = "returned", !.out = limitedResults(agg.results)]
    /\ UNCHANGED <<browserInstance, sessions, gp, cl, req>>

\* if (!Array.isArray(courses) || courses.length === 0)
CoursesEmptyNever(courses) == FALSE

CoursesEmpty(courses) == Len(courses) = 0

\* findAssocCourses has returned: an empty list is answered with 400 and the
\* record id, otherwise the letter is built with one table row per course;
\* generatePDF is called next.
HandlerAfterAgg ==
    /\ req.pc = "agg"
    /\ agg.pc = "returned"
    /\ IF CoursesEmpty(agg.out)
       THEN /\ req' = Respond(req, 400,
                         [error |-> "No valid course enrollments found for this student",
                          recordID |-> req.data.recordID])
            /\ agg' = agg
       ELSE /\ req' = [req EXCEPT !.pc = "render",
                                   !.letter = [rows |-> Len(agg.out)]]
            /\ agg' = InitAgg
    /\ UNCHANGED <<browserInstance, sessions, gp, cl>>

\* findAssocCourses has thrown: the catch block of the handler answers 500.
HandlerCatchAgg ==
    /\ req.pc = "agg"
    /\ agg.pc = "failed"
    /\ req' = InternalError(req, agg.error)
    /\ agg' = agg
    /\ UNCHANGED <<browserInstance, sessions, gp, cl>>

\* const pdfBuffer = await generatePDF(html);
GeneratePDFCalled ==
    /\ req.pc = "render"
    /\ Call(ReqProc)

\* generatePDF has returned (the upload is sent) or thrown (500).
HandlerAfterPdf ==
    /\ req.pc = "render"
    /\ \/ /\ gp[ReqProc].pc = "returned"
          /\ req' = [req EXCEPT !.pc = "upload", !.calls = Append(@, "upload")]
       \/ /\ gp[ReqProc].pc = "thrown"
          /\ req' = InternalError(req, gp[ReqProc].thrown)
    /\ UNCHANGED <<browserInstance, sessions, gp, cl, agg>>

\* The upload (axios.post) rejects inside the handler's try block: nothing
\* after it runs, the catch block answers.
UploadRejectedNoteAnyway(r) ==
    [r EXCEPT !.pc = "note", !.calls = Append(@, "note")]

UploadRejected(r) == InternalError(r, "upload failed")

\* The upload settles: fileUrl is taken from its answer and the note is
\* created, or the failure is answered 500.
UploadSettles ==
    /\ req.pc = "upload"
    /\ \/ req' = [req EXCEPT !.pc = "note", !.fileUrl = "url",
                             !.calls = Append(@, "note")]
       \/ req' = UploadRejected(req)
    /\ UNCHANGED <<browserInstance, sessions, gp, cl, agg>>

\* The note creation settles: 200, or the failure is answered 500.
NoteSettles ==
    /\ req.pc = "note"
    /\ \/ req' = Respond(req, 200, [message |-> "PDF generated, uploaded, and note created/associated in HubSpot.",
                                    noteId |-> "note", fileUrl |-> req.fileUrl,
                                    success |-> TRUE, timestamp |-> "now"])
       \/ req' = InternalError(req, "note creation failed")
    /\ UNCHANGED <<browserInstance, sessions, gp, cl, agg>>

\* One POST, GET, OPTIONS or other request to the enrollment-letter handler,
\* with the rendering engine's events and cleanup() at any time.
NextEnroll ==
    \/ ReceiveEnroll
    \/ AssocSettles
    \/ \E c \in 1..MaxAssoc : ChildSettles(c)
    \/ RankAndCap
    \/ HandlerAfterAgg
    \/ HandlerCatchAgg
    \/ GeneratePDFCalled
    \/ Step(ReqProc)
    \/ HandlerAfterPdf
    \/ UploadSettles
    \/ NoteSettles
    \/ Env

SpecEnroll == Init /\ [][NextEnroll]_vars

\* ------------------------------------------- the acceptance-letter handler

\* const requiredFields = [...] of generateLOA.js.
requiredFieldsLOA ==
    <<"firstname", "lastname", "recordID", "student_id", "location", "course_id",
      "enrollment_record_id">>

Atlantis == Str(<<"A", "t", "l", "a", "n", "t", "i", "s">>)

\* The payloads of the model.  lastname, recordID and student_id are set in
\* all of them.
LOAPayloads ==
    {[firstname |-> fn, lastname |-> Str(<<"x">>), recordID |-> Str(<<"x">>),
      student_id |-> Str(<<"x">>), location |-> loc, course_id |-> cid,
      enrollment_record_id |-> eid, course_start_date |-> sd, course_end_date |-> ed] :
        fn \in {Absent, Str(<<"x">>)},
        eid \in {Absent, Str(<<"x">>)},
        loc \in {Absent, Calgary, Atlantis},
        cid \in {Absent, CodeAFK, CodeB9SitPractice, CodeUnknown},
        sd \in {Absent, Str(<<>>), DateEpoch, DateIso},
        ed \in {Absent, DateEpoch}}

\* Number(value) of a property: NaN for undefined.
NumberOf(v) == IF v.present THEN Number(v.s) ELSE NaN

\* formatEpochMsToLongDate(ms, { timeZone })
formatEpochMsToLongDate(ms, timeZone) ==
    IF NumberOf(ms) = NaN
    THEN Thrown("Invalid epoch milliseconds")
    ELSE Returned([ms |-> NumberOf(ms), timeZone |-> timeZone])

\* String(data.course_id || "").toLowerCase().includes("sitpractice")
isSitPracCaseSensitive(course_id) ==
    includes(IF Truthy(course_id) THEN course_id.s ELSE <<>>,
             <<"s", "i", "t", "p", "r", "a", "c", "t", "i", "c", "e">>)

isSitPrac(course_id) ==
    includes(toLowerCase(IF Truthy(course_id) THEN course_id.s ELSE <<>>),
             <<"s", "i", "t", "p", "r", "a", "c", "t", "i", "c", "e">>)

\* findLocation of generateLOA.js:
\* location_mapper[location] || location_mapper["Mississauga"]
findLocationLOA(location) ==
    IF LocationLookup(location) # NullString
    THEN LocationLookup(location)
    ELSE LocationLookup(Str(<<"M", "i", "s", "s", "i", "s", "s", "a", "u", "g", "a">>))

\* mapCourse of generateLOA.js: the same keys in the same order; the name of
\* AFK is spelled "Fundamental" there.
mapCourseLOA(courseID) ==
    IF mapCourse(courseID) = CourseName("AFK")
    THEN "Assessment of Fundamental Knowledge Course"
    ELSE mapCourse(courseID)

\* The acceptance-letter handler from the validation of the payload to the
\* call of generatePDF: the two dates are formatted before the missing fields
\* are looked at.
PostLOA(r, data) ==
    LET start == formatEpochMsToLongDate(data.course_start_date, "UTC")
        end   == formatEpochMsToLongDate(data.course_end_date, "UTC")
    IN  IF ~start.ok THEN InternalError(r, start.msg)
        ELSE IF ~end.ok THEN InternalError(r, end.msg)
        ELSE LET duration == IF isSitPrac(data.course_id)
                             THEN <<"12 Weeks">>
                             ELSE <<start.v, end.v>>
                 serviceLocation == findLocationLOA(data.location)
                 goOn == [r EXCEPT !.pc = "render",
                             !.letter = [fullCourseName |-> mapCourseLOA(data.course_id),
                                         duration |-> duration,
                                         serviceLocation |-> serviceLocation]]
             IN  Validate(r, requiredFieldsLOA, data,
                     IF serviceLocation = NullString
                     THEN Respond(r, 400, [error |-> "Invalid location",
                                           location |-> data.location])
                     ELSE goOn)

\* module.exports of generateLOA.js up to the first await.
ReceiveLOA ==
    /\ req.pc = "idle"
    /\ \E method \in Methods :
         LET r == [req EXCEPT !.flow = "loa", !.method = method]
         IN  \/ /\ method = "OPTIONS"
                /\ req' = Respond(r, 200, [ended |-> TRUE])
             \/ /\ method = "GET"
                /\ req' = HealthCheck(r)
             \/ /\ method \notin {"OPTIONS", "GET", "POST"}
                /\ req' = Respond(r, 405, [error |-> "Method not allowed"])
             \/ /\ method = "POST"
                /\ \E data \in LOAPayloads :
                     req' = PostLOA([r EXCEPT !.data = data], data)
    /\ UNCHANGED <<browserInstance, sessions, gp, cl, agg>>

\* One request to the acceptance-letter handler.
NextLOA ==
    \/ ReceiveLOA
    \/ GeneratePDFCalled
    \/ Step(ReqProc)
    \/ HandlerAfterPdf
    \/ UploadSettles
    \/ NoteSettles
    \/ Env

SpecLOA == Init /\ [][NextLOA]_vars

\* ------------------------------------- requests to one warm function instance

\* The handler has returned; the platform invokes it again in the same
\* process, so local variables are fresh and the module-level session cache
\* is as the earlier requests left it.  The two handlers are two modules with
\* a cache each: a behaviour stays with the handler of its first request.
NextRequest ==
    /\ req.pc = "done"
    /\ req' = [InitReq EXCEPT !.flow = req.flow]
    /\ agg' = InitAgg
    /\ gp' = [gp EXCEPT ![ReqProc] = InitProc]
    /\ UNCHANGED <<browserInstance, sessions, cl>>

\* The POST payloads of the repeated requests: a complete one and one
\* without firstname.
ServePayloads ==
    {data \in EnrollPayloads :
        \A f \in DOMAIN data : f # "firstname" => data[f] = Str(<<"x">>)}

ServePayloadsLOA ==
    {data \in LOAPayloads :
        /\ data.enrollment_record_id = Str(<<"x">>)
        /\ data.location = Calgary
        /\ data.course_id = CodeAFK
        /\ data.course_end_date = DateEpoch
        /\ data.course_start_date \in {DateEpoch, DateIso}}

\* The detail fetches of the repeated requests: one child, whose fetch fails
\* or answers with a complete or an incomplete record.
ServeOutcomes ==
    {NetworkError, [fetch |-> "ok", props |-> SomeValid],
     [fetch |-> "ok", props |-> [SomeValid EXCEPT !.course_id = CodeUnknown]]}

ServeReceive ==
    /\ req.flow \in {"none", "enroll"}
    /\ ReceiveEnroll
    /\ req'.method = "POST" => req'.data \in ServePayloads

ServeReceiveLOA ==
    /\ req.flow \in {"none", "loa"}
    /\ ReceiveLOA
    /\ req'.method = "POST" => req'.data \in ServePayloadsLOA

ServeAssoc ==
    /\ AssocSettles
    /\ agg'.pc = "fetching" =>
          /\ Len(agg'.allCourses) = 1
          /\ agg'.backing[1] \in ServeOutcomes

NextServe ==
    \/ ServeReceive
    \/ ServeReceiveLOA
    \/ ServeAssoc
    \/ ChildSettles(1)
    \/ RankAndCap
    \/ HandlerAfterAgg
    \/ HandlerCatchAgg
    \/ GeneratePDFCalled
    \/ Step(ReqProc)
    \/ HandlerAfterPdf
    \/ UploadSettles
    \/ NoteSettles
    \/ NextRequest
    \/ Env

SpecServe == Init /\ [][NextServe]_vars

\* --------------------------------------------------- the ranking on its own

\* Length of the arrays of valid records the ranking is applied to.
MaxResults == 9

\* The mock records of testLimitingLogic: 12 records created a month apart,
\* oldest first.
MockCount == 12

\* A valid course record created at instant t for child id.
CourseRecord(id, t) ==
    [courseID |-> "Course", duration |-> <<>>, location |-> NullString,
     createDate |-> t, hubspotId |-> id]

mockCourses == [i \in 1..MockCount |-> CourseRecord(i, i)]

\* Length up to which every order of the creation instants is tried.
MaxPermuted == 7

\* The orders of n different creation instants 1..n tried for an array of n
\* records: all of them up to MaxPermuted records; for longer arrays the
\* rotations of the ascending and of the descending order.
Orders(n) ==
    IF n <= MaxPermuted
    THEN Permutations(1..n)
    ELSE {[i \in 1..n |-> ((i + r) % n) + 1] : r \in 0..(n - 1)}
         \cup {[i \in 1..n |-> n - ((i + r) % n)] : r \in 0..(n - 1)}

\* The arrays the ranking is applied to: arrays of up to MaxResults records
\* whose creation instants are all different, every array of up to MaxResults
\* records created at instant 0 (no createdate) or 1, and the mock records.
RankInputs ==
    UNION {{[i \in 1..n |-> CourseRecord(i, f[i])] : f \in Orders(n)} :
              n \in 0..MaxResults}
    \cup UNION {{[i \in 1..n |-> CourseRecord(i, f[i])] : f \in [1..n -> {0, 1}]} :
              n \in 0..MaxResults}
    \cup {mockCourses}

\* findAssocCourses at the point where the valid records are collected.
InitRank ==
    /\ browserInstance = NULL
    /\ sessions = [s \in Sessions |-> NoSession]
    /\ gp = [p \in Procs |-> InitProc]
    /\ cl = InitCleanup
    /\ req = InitReq
    /\ agg \in {[InitAgg EXCEPT !.pc = "collected", !.results = r] : r \in RankInputs}

NextRank == RankAndCap

SpecRank == InitRank /\ [][NextRank]_vars

\* ------------------------------------------------------------------ claims

\* C1: when every attempt of a generatePDF call fails, the call makes exactly
\* MaxRetries (3) attempts, waits between consecutive attempts with strictly
\* increasing delays, starts nothing after the last failure and raises the
\* error of the last attempt.
C1_Exhausted(p) ==
    /\ gp[p].pc = "backoff" => gp[p].retries > 0 /\ Len(gp[p].waits) = gp[p].attempts
    /\ gp[p].pc = "thrown" =>
          /\ gp[p].attempts = MaxRetries
          /\ Len(gp[p].waits) = MaxRetries - 1
          /\ \A i, j \in 1..Len(gp[p].waits) : i < j => gp[p].waits[i] < gp[p].waits[j]
          /\ gp[p].thrown = gp[p].error
          /\ gp[p].thrown.attempt = MaxRetries

C1_ExhaustsThenRaisesLast ==
    /\ [](\A p \in Procs : C1_Exhausted(p))
    /\ [][\A p \in Procs : gp[p].pc = "thrown" => gp'[p] = gp[p]]_vars

C1_Witness == \E p \in Procs : gp[p].pc = "thrown" /\ gp[p].attempts = MaxRetries

\* C2: a call whose last permitted attempt succeeds after the earlier ones
\* failed returns the buffer that attempt produced; no call makes more than
\* MaxRetries attempts, and nothing is started once an attempt has succeeded.
C2_Returned(p) ==
    /\ gp[p].attempts <= MaxRetries
    /\ gp[p].pc = "returned" =>
          /\ gp[p].result # 0
          /\ gp[p].result = gp[p].attempts
    /\ gp[p].pc = "finallyClose" => gp[p].pdf = gp[p].attempts

C2_ReturnsSuccessfulBuffer ==
    /\ [](\A p \in Procs : C2_Returned(p))
    /\ [][\A p \in Procs :
            /\ gp[p].pc = "returned" => gp'[p] = gp[p]
            /\ gp[p].pc = "finallyClose" => gp'[p].attempts = gp[p].attempts]_vars

C2_Witness ==
    \E p \in Procs : /\ gp[p].pc = "returned"
                      /\ gp[p].attempts = MaxRetries
                      /\ gp[p].result = MaxRetries
                      /\ Len(gp[p].waits) = MaxRetries - 1

\* C3: the wait after the k-th failed attempt is exactly k x 1000 ms.
C3_WaitIsAttemptTimes1000 ==
    \A p \in Procs : \A k \in 1..Len(gp[p].waits) : gp[p].waits[k] = k * 1000

\* C4: every page an attempt opened has had close invoked on it before the
\* next attempt starts and before the call returns or raises; a failing close
\* is swallowed and leaves the attempt's outcome (its buffer, its error) as
\* it was.
C4_PagesClosed ==
    \A p \in Procs :
        /\ gp[p].pc \notin {"render", "catchClose", "finallyClose"} =>
              gp[p].unclosed = {} /\ gp[p].page = NULL
        /\ gp[p].pc \in {"render", "catchClose", "finallyClose"} =>
              gp[p].unclosed = {gp[p].attempts} /\ gp[p].page = gp[p].attempts
        /\ gp[p].pc = "returned" => gp[p].result = gp[p].attempts /\ gp[p].closes = 1
        /\ gp[p].pc \in {"backoff", "thrown"} /\ gp[p].closes > 0 =>
              /\ gp[p].closes = 1
              /\ gp[p].error = [attempt |-> gp[p].attempts, kind |-> "render"]

C4_Witness ==
    \E p \in Procs : gp[p].pc = "returned" /\ gp[p].closeFailed /\ gp[p].result # 0

\* C5: a cached session that reports disconnected is never handed out again:
\* a getBrowserInstance call that finds it cached launches a new session and
\* hands out that one.
C5_StaleNeverReused ==
    \A p \in Procs :
        /\ ~gp[p].reusedStale
        /\ gp[p].pc = "newPage" /\ gp[p].stale # NULL =>
              /\ gp[p].launched # NULL
              /\ gp[p].browser = gp[p].launched
              /\ gp[p].browser # gp[p].stale

C5_Witness ==
    \E p \in Procs : /\ gp[p].pc = "newPage"
                      /\ gp[p].stale # NULL
                      /\ gp[p].browser = gp[p].launched
                      /\ browserInstance = gp[p].launched

\* C6: at most one launched session is live (connected and not closed) at a
\* time, under any interleaving of callers, disconnections and cleanup.
C6_AtMostOneLiveSession ==
    Cardinality({s \in Sessions : Connected(sessions, s)}) <= 1

\* C7: every getBrowserInstance call that returns hands its caller a non-null
\* session that is connected at the moment of the return (the caller's next
\* statement raises typeError on a null handle and disconnected on a handle
\* whose connected flag is false).
C7_ReturnsConnectedHandle ==
    \A p \in Procs : gp[p].error.kind \notin {"typeError", "disconnected"}

\* C8: a failing launch is raised to the caller of getBrowserInstance and
\* leaves the cache and the sessions as they were: nothing new is cached and
\* no observer is registered.
C8_LaunchFailureLeavesCache ==
    /\ [](\A p \in Procs : gp[p].pc = "gbiRejected" => gp[p].launched = NULL)
    /\ [][\A p \in Procs :
            /\ gp[p].pc = "launching" /\ gp'[p].pc = "gbiRejected" =>
                  browserInstance' = browserInstance /\ sessions' = sessions
            /\ gp[p].pc = "gbiRejected" /\ gp'[p].pc # "gbiRejected" =>
                  gp'[p].error = [attempt |-> gp[p].attempts, kind |-> "launch"]]_vars

C8_Witness ==
    \E p \in Procs : /\ gp[p].pc = "gbiRejected"
                      /\ browserInstance # NULL
                      /\ ~Connected(sessions, browserInstance)

\* C9 (as claimed): when cleanup() completes the cache is empty, whatever the
\* cached session was beforehand (connected or reporting disconnected).
C9_CacheEmptyAfterCleanup ==
    [][cl.pc # "done" /\ cl'.pc = "done" => browserInstance' = NULL]_vars

\* C9 (amended): when cleanup() found a connected cached session, the cache is
\* empty when it completes, whether or not the close succeeded; when it found
\* no session or one reporting disconnected, it changes nothing (that session
\* stays cached); it raises in neither case.
C9_CleanupClearsConnectedOnly ==
    /\ [](~cl.raised)
    /\ [][/\ cl.pc = "closing" /\ cl'.pc = "done" =>
              cl.saw = "connected" /\ browserInstance' = NULL
          /\ cl.pc = "idle" /\ cl'.pc = "done" =>
              /\ ~CleanupGuard(browserInstance, sessions)
              /\ browserInstance' = browserInstance
              /\ sessions' = sessions
          /\ cl.pc = "idle" /\ cl'.pc = "closing" =>
              CleanupGuard(browserInstance, sessions) /\ cl'.target = browserInstance]_vars

C9_Witness ==
    /\ cl.pc = "done"
    /\ cl.saw = "connected"
    /\ ~cl.closeOk
    /\ browserInstance = NULL

\* C10: once cleanup() and the generatePDF calls it overlapped have finished,
\* the process holds no connected session that is neither cached nor closed:
\* a session cleanup() took out of the cache without calling close on it is
\* not left connected.
C10_NoLeakAfterCleanup ==
    (cl.pc = "done" /\ \A p \in Procs : ~InFlight(p)) =>
        (cl.dropped = NULL \/ ~Connected(sessions, cl.dropped))

\* C11: every list findAssocCourses returns has at most 8 records and is in
\* descending order of creation instant.
C11_CappedAndDescending ==
    agg.pc = "returned" =>
        /\ Len(agg.out) <= 8
        /\ \A i \in 1..(Len(agg.out) - 1) :
              agg.out[i].createDate >= agg.out[i + 1].createDate

\* More than 8 valid records, not in descending order, were ranked.
C11_Witness ==
    /\ agg.pc = "returned"
    /\ Len(agg.results) > 8
    /\ Len(agg.out) = 8
    /\ \E i \in 1..(Len(agg.results) - 1) :
          agg.results[i].createDate < agg.results[i + 1].createDate

\* C12: of n valid records with different creation instants the aggregation
\* returns exactly the min(n, 8) most recent ones, every record left out being
\* older than every record returned; of the 12 mock records it returns
\* 012, 011, ..., 005 in that order.
C12_MostRecentKept ==
    (/\ agg.pc = "returned"
     /\ \A i, j \in 1..Len(agg.results) :
           i # j => agg.results[i].createDate # agg.results[j].createDate)
    => LET n    == Len(agg.results)
           kept == {agg.out[i] : i \in 1..Len(agg.out)}
           all  == {agg.results[i] : i \in 1..n}
       IN  /\ Len(agg.out) = (IF n < 8 THEN n ELSE 8)
           /\ Cardinality(kept) = Len(agg.out)
           /\ kept \subseteq all
           /\ \A x \in all \ kept : \A y \in kept : x.createDate < y.createDate
           /\ agg.results = mockCourses =>
                 [i \in 1..Len(agg.out) |-> agg.out[i].hubspotId]
                    = <<12, 11, 10, 9, 8, 7, 6, 5>>

\* The 12 mock records have been ranked.
C12_Witness ==
    /\ agg.pc = "returned"
    /\ agg.results = mockCourses
    /\ Len(agg.out) = 8

\* The children of the running aggregation, and those whose detail is
\* complete.
C13_Children == {agg.allCourses[i] : i \in 1..Len(agg.allCourses)}

C13_ValidChildren ==
    {c \in C13_Children : agg.backing[c].fetch = "ok" /\ agg.backing[c].props \in ValidProps}

\* C13: every record of the list findAssocCourses returns comes from a child
\* that had a start date, an end date and a course code, whose dates parsed
\* and whose code mapped to a known course; no other child appears.
C13_OnlyCompleteChildren ==
    agg.pc = "returned" =>
        \A i \in 1..Len(agg.out) :
            /\ agg.out[i].hubspotId \in C13_ValidChildren
            /\ agg.out[i].courseID # NullString
            /\ Len(agg.out[i].duration) = 2

\* A list was returned although a sibling was skipped.
C13_Witness ==
    /\ agg.pc = "returned"
    /\ Len(agg.out) > 0
    /\ \E c \in C13_Children : agg.backing[c].props \in SkippedProps

\* C14: a child with a missing required property, an unparseable date or an
\* unknown course code is skipped without failing the aggregation: when every
\* detail fetch returned, the aggregation does not fail and returns exactly
\* the valid siblings (up to the cap of 8).
C14_SkipDoesNotFail ==
    (/\ agg.pc \in {"fetching", "collected", "returned", "failed"}
     /\ C13_Children # {}
     /\ \A c \in C13_Children : agg.backing[c].fetch = "ok")
    => /\ agg.pc # "failed"
       /\ Len(agg.completed) = Len(agg.allCourses) => agg.pc \in {"collected", "returned"}
       /\ agg.pc = "returned" =>
             /\ {agg.out[i].hubspotId : i \in 1..Len(agg.out)} \subseteq C13_ValidChildren
             /\ Len(agg.out) = (IF Cardinality(C13_ValidChildren) < 8
                                THEN Cardinality(C13_ValidChildren) ELSE 8)

\* Every fetch returned, two children were skipped (no end date, unknown
\* course code) and the valid sibling was returned.
C14_Witness ==
    /\ agg.pc = "returned"
    /\ Len(agg.allCourses) = 3
    /\ Len(agg.out) = 1
    /\ \E c \in C13_Children : ~Truthy(agg.backing[c].props.course_end_date)
    /\ \E c \in C13_Children : agg.backing[c].props.course_id = CodeUnknown

\* C15: if the detail fetch of any child fails, findAssocCourses fails as a
\* whole and returns no records, whatever the other fetches yield and in
\* whatever order they complete; the error names a child whose fetch failed,
\* and a fetch that completes later does not undo the failure.
C15_FailFast ==
    /\ [](agg.pc \in {"collected", "returned"} =>
             \A c \in C13_Children : agg.backing[c].fetch = "ok")
    /\ []((/\ Len(agg.allCourses) > 0
           /\ Len(agg.completed) = Len(agg.allCourses)
           /\ \E c \in C13_Children : agg.backing[c].fetch = "error")
          => agg.pc = "failed")
    /\ []((agg.pc = "failed" /\ agg.error.kind = "Failed fetching course") =>
             /\ agg.error.child \in C13_Children
             /\ agg.backing[agg.error.child].fetch = "error"
             /\ agg.out = <<>>)
    /\ [][agg.pc = "failed" => agg'.pc = "failed" /\ agg'.error = agg.error]_vars

\* A valid child completed first, then a sibling's fetch failed, and the
\* remaining sibling completed after the failure.
C15_Witness ==
    /\ agg.pc = "failed"
    /\ Len(agg.allCourses) = 3
    /\ Len(agg.completed) = 3
    /\ agg.backing[agg.completed[1]].fetch = "ok"
    /\ agg.error.child = agg.completed[2]
    /\ req.pc = "done"

\* C16: the list returned is a function of the backing data alone (the
\* children in association order and their details): it is the same whatever
\* the order in which the concurrent fetches completed, records with the same
\* creation instant included.
C16_OrderIndependent ==
    agg.pc = "returned" =>
        agg.out = limitedResults(FilterNull(PromiseAll(agg.allCourses, agg.allCourses,
                                                       agg.backing)))

\* Two records with the same creation instant were returned after their
\* fetches completed in the reverse of the association order.
C16_Witness ==
    /\ agg.pc = "returned"
    /\ Len(agg.out) >= 2
    /\ agg.out[1].createDate = agg.out[2].createDate
    /\ \E i, j \in 1..Len(agg.completed) :
          /\ i < j
          /\ agg.completed[i] = agg.out[2].hubspotId
          /\ agg.completed[j] = agg.out[1].hubspotId

\* C17: the course code "B9-SitPractice-2024" is given the display name of the
\* table key SitPractice.
C17_B9SitPracticeIsSitPractice ==
    agg.pc = "returned" =>
        \A i \in 1..Len(agg.out) :
            agg.backing[agg.out[i].hubspotId].props.course_id = CodeB9SitPractice
            => agg.out[i].courseID = CourseName("SitPractice")

\* The fields of the payload of the request that are absent or empty.
C18_Missing == {f \in DOMAIN req.data : ~Truthy(req.data[f])}

\* C18: a POST to the enrollment-letter handler whose payload lacks any of
\* firstname, lastname, recordID, student_id (absent or empty) is answered 400
\* with missingFields naming exactly the fields that lack, without any
\* association fetch, child fetch, render, upload or note creation, and
\* nothing follows the answer.
C18_MissingFieldsRejected ==
    /\ []((req.flow = "enroll" /\ req.method = "POST" /\ C18_Missing # {}) =>
             /\ req.pc = "done"
             /\ Len(req.res) = 1
             /\ req.res[1].status = 400
             /\ {req.res[1].body.missingFields[i] :
                    i \in 1..Len(req.res[1].body.missingFields)} = C18_Missing
             /\ Len(req.res[1].body.missingFields) = Cardinality(C18_Missing)
             /\ req.calls = <<>>
             /\ agg = InitAgg
             /\ gp[ReqProc] = InitProc)
    /\ [][req.pc = "done" => req' = req /\ gp'[ReqProc] = gp[ReqProc]]_vars

\* A payload without lastname and with an empty student_id was answered.
C18_Witness ==
    /\ req.flow = "enroll"
    /\ req.method = "POST"
    /\ req.pc = "done"
    /\ C18_Missing = {"lastname", "student_id"}
    /\ req.data.lastname = Absent
    /\ req.data.student_id = Str(<<>>)
    /\ req.res[1].body.missingFields = <<"lastname", "student_id">>

\* The required fields of the acceptance-letter payload that are absent or
\* empty.
C19_Missing ==
    {requiredFieldsLOA[i] : i \in {j \in 1..Len(requiredFieldsLOA) :
                                      ~Truthy(req.data[requiredFieldsLOA[j]])}}

\* C19: a POST to the acceptance-letter handler whose payload lacks a required
\* field is answered with a 4xx naming exactly the missing fields, whatever
\* the other fields hold (the two course dates included), and is not rendered,
\* uploaded or noted.
C19_MissingFieldsRejectedLOA ==
    (req.flow = "loa" /\ req.method = "POST" /\ req.pc # "idle" /\ C19_Missing # {}) =>
        /\ req.pc = "done"
        /\ Len(req.res) = 1
        /\ req.res[1].status \in 400..499
        /\ "missingFields" \in DOMAIN req.res[1].body
        /\ {req.res[1].body.missingFields[i] :
               i \in 1..Len(req.res[1].body.missingFields)} = C19_Missing
        /\ req.calls = <<>>
        /\ gp[ReqProc] = InitProc

\* C20: in the enrollment-letter flow every aggregation failure (the
\* association fetch fails, the association list is empty, or every child is
\* filtered out) is answered with a 4xx that carries the parent record id.
C20_AggregationFailureIs4xx ==
    (/\ req.flow = "enroll"
     /\ req.pc = "done"
     /\ \/ /\ agg.pc = "failed"
           /\ agg.error.kind \in {"Failed fetching associations",
                                  "Trainee has no valid enrollments"}
        \/ /\ agg.pc = "returned"
           /\ Len(agg.out) = 0)
    => /\ Len(req.res) = 1
       /\ req.res[1].status \in 400..499
       /\ "recordID" \in DOMAIN req.res[1].body
       /\ req.res[1].body.recordID = req.data.recordID

\* C21: when the parent has at least one child and every child is skipped, the
\* enrollment request ends with a client error that names the parent record
\* id, and nothing is rendered, uploaded or noted.
C21_AllSkippedIsClientError ==
    /\ []((/\ req.flow = "enroll"
           /\ agg.pc \in {"collected", "returned"}
           /\ C13_Children # {}
           /\ \A c \in C13_Children : agg.backing[c].props \in SkippedProps)
          => /\ req.pc \in {"agg", "done"}
             /\ gp[ReqProc] = InitProc
             /\ \A i \in 1..Len(req.calls) : req.calls[i] \notin {"upload", "note"}
             /\ req.pc = "done" =>
                   /\ Len(req.res) = 1
                   /\ req.res[1].status \in 400..499
                   /\ req.res[1].body.recordID = req.data.recordID)
    /\ []((req.flow = "enroll" /\ req.pc \in {"render", "upload", "note"})
          => req.letter.rows > 0)
    /\ [][req.pc = "done" => req'.pc = "done" /\ req'.res = req.res]_vars

\* Three children, skipped for a missing start date, an unparseable date and
\* an unknown course code, and the request was answered.
C21_Witness ==
    /\ req.flow = "enroll"
    /\ req.pc = "done"
    /\ agg.pc = "returned"
    /\ Len(agg.allCourses) = 3
    /\ agg.out = <<>>
    /\ \E c \in C13_Children : agg.backing[c].props.course_start_date = Absent
    /\ \E c \in C13_Children : agg.backing[c].props.course_start_date = DateWords
    /\ \E c \in C13_Children : agg.backing[c].props.course_id = CodeUnknown
    /\ req.res[1].status = 400

\* The number of entries of the call log that equal name.
C22_Count(name) == Cardinality({i \in 1..Len(req.calls) : req.calls[i] = name})

\* C22: in a valid enrollment request the file is uploaded only after the
\* render returned a document, the note is created only after the upload
\* succeeded, and success is answered only after the note was created; a
\* failure of the render, the upload or the note is answered with a 5xx, and
\* none of the three is ever tried a second time.
C22_RenderUploadNoteInOrder ==
    /\ []((req.flow = "enroll" /\ req.method = "POST") =>
            /\ C22_Count("upload") <= 1
            /\ C22_Count("note") <= 1
            /\ C22_Count("upload") = 1 =>
                  /\ gp[ReqProc].pc = "returned"
                  /\ gp[ReqProc].result # NULL
            /\ req.fileUrl # NullString => C22_Count("upload") = 1
            /\ C22_Count("note") = 1 =>
                  /\ req.fileUrl # NullString
                  /\ req.calls[Len(req.calls)] = "note"
                  /\ req.calls[Len(req.calls) - 1] = "upload"
            /\ (req.pc = "done" /\ req.res[1].status = 200) =>
                  /\ C22_Count("note") = 1
                  /\ DOMAIN req.res[1].body =
                        {"message", "noteId", "fileUrl", "success", "timestamp"}
                  /\ req.res[1].body.success = TRUE
                  /\ req.res[1].body.fileUrl = req.fileUrl
            /\ (req.pc = "done" /\ gp[ReqProc].pc = "thrown") =>
                  /\ req.res[1].status \in 500..599
                  /\ C22_Count("upload") = 0
            /\ (req.pc = "done" /\ C22_Count("upload") = 1 /\ req.fileUrl = NullString) =>
                  /\ req.res[1].status \in 500..599
                  /\ C22_Count("note") = 0
            /\ (req.pc = "done" /\ C22_Count("note") = 1) =>
                  req.res[1].status \in {200} \cup 500..599)
    /\ [][(req.flow = "enroll" /\ req.pc = "done") => req' = req]_vars
    /\ [][(req.flow = "enroll" /\ gp[ReqProc].pc \in {"returned", "thrown"})
             => gp'[ReqProc] = gp[ReqProc]]_vars

\* The render needed a second attempt, the upload succeeded and the note
\* creation failed: the request was answered 500 after one upload and one note.
C22_Witness ==
    /\ req.flow = "enroll"
    /\ req.pc = "done"
    /\ gp[ReqProc].pc = "returned"
    /\ gp[ReqProc].attempts = 2
    /\ req.fileUrl # NullString
    /\ C22_Count("upload") = 1
    /\ C22_Count("note") = 1
    /\ req.res[1].status = 500

\* C23: every failure response of the enrollment-letter handler carries an
\* error description, success = false and a timestamp.
C23_FailurePayloadUniform ==
    (req.flow = "enroll" /\ req.pc = "done" /\ req.res[1].status >= 400) =>
        /\ {"error", "success", "timestamp"} \subseteq DOMAIN req.res[1].body
        /\ req.res[1].body.success = FALSE

\* C24: an OPTIONS or GET request is answered with a fixed 200 and any other
\* method but POST with 405; the handler then has called neither the record
\* store nor the rendering engine, and the step that answers leaves the
\* session cache and the sessions as they were.
C24_NonPostHasNoEffect ==
    /\ []((req.pc # "idle" /\ req.method # "POST") =>
            /\ req.pc = "done"
            /\ Len(req.res) = 1
            /\ req.method = "OPTIONS" =>
                  req.res[1] = [status |-> 200, body |-> [ended |-> TRUE]]
            /\ req.method = "GET" =>
                  /\ req.res[1].status = 200
                  /\ req.res[1].body = [status |-> "PDF Generation API running",
                                        timestamp |-> "now",
                                        service |-> "PDF Generation Service"]
            /\ req.method \notin {"OPTIONS", "GET"} =>
                  req.res[1] = [status |-> 405, body |-> [error |-> "Method not allowed"]]
            /\ req.calls = <<>>
            /\ agg = InitAgg
            /\ gp[ReqProc] = InitProc)
    /\ [][(req.pc = "idle" /\ req'.pc # "idle" /\ req'.method # "POST") =>
             /\ browserInstance' = browserInstance
             /\ sessions' = sessions
             /\ gp' = gp
             /\ cl' = cl]_vars

\* A health check answered by an instance whose cache holds a connected
\* session from an earlier request.
C24_Witness ==
    /\ req.pc = "done"
    /\ req.method = "GET"
    /\ req.res[1].status = 200
    /\ browserInstance # NULL
    /\ Connected(sessions, browserInstance)

C26_ExactlyOneResponse ==
    /\ [](/\ req.pc \in {"idle", "agg", "render", "upload", "note", "done"}
          /\ Len(req.res) = IF req.pc = "done" THEN 1 ELSE 0)
    /\ [][req.pc = "done" =>
             \/ req' = req
             \/ req'.pc = "idle" /\ req'.res = <<>>]_vars
    /\ [][(/\ req' # req
           /\ \/ req.pc = "agg" /\ agg.pc = "failed"
              \/ req.pc = "render" /\ gp[ReqProc].pc = "thrown"
              \/ req.pc \in {"upload", "note"} /\ req'.pc = "done" /\ req'.res[1].status # 200)
          => /\ req'.pc = "done"
             /\ Len(req'.res) = 1
             /\ req'.res[1].status \in 400..599
             /\ "error" \in DOMAIN req'.res[1].body]_vars

\* A request whose render launched a session and threw after its last attempt
\* was answered once, with 500.
C26_Witness ==
    /\ req.pc = "done"
    /\ req.method = "POST"
    /\ gp[ReqProc].pc = "thrown"
    /\ Len(req.res) = 1
    /\ req.res[1].status = 500
    /\ \E s \in Sessions : sessions[s].st # "none"

\* C27: when an attempt of generatePDF fails while the cached session reports
\* disconnected, the catch block empties the cache; the next attempt, finding
\* the cache empty or stale, launches a session, and no attempt is handed the
\* session that reported disconnected when it began.
C27_FailedAttemptForcesNewSession ==
    /\ [][\A p \in Procs :
             (/\ gp[p].pc \notin {"backoff", "thrown"}
              /\ gp'[p].pc \in {"backoff", "thrown"}
              /\ browserInstance # NULL
              /\ ~Connected(sessions, browserInstance))
             => browserInstance' = NULL]_vars
    /\ [][\A p \in Procs :
             (/\ gp[p].pc = "backoff"
              /\ gp'[p].pc # "backoff"
              /\ (browserInstance = NULL \/ ~Connected(sessions, browserInstance)))
             => /\ gp'[p].pc = "launching"
                /\ gp'[p].attempts = gp[p].attempts + 1]_vars
    /\ [](\A p \in Procs : ~gp[p].reusedStale)

\* A call whose first session disconnected returned the document of a later
\* attempt, rendered on a second session that is now cached and connected.
C27_Witness ==
    \E p \in Procs :
        /\ gp[p].pc = "returned"
        /\ gp[p].attempts \in {2, 3}
        /\ gp[p].result = gp[p].attempts
        /\ gp[p].waits # <<>>
        /\ sessions[1].st = "disconnected"
        /\ browserInstance = 2
        /\ Connected(sessions, 2)

\* C28: outside the launch inside getBrowserInstance, no step of generatePDF
\* changes the state of any session (none is closed), and the cache is either
\* left as it is or, at the end of a failed attempt that finds the cached
\* session reporting disconnected, emptied; in particular the step that
\* returns the document leaves cache and sessions as they are.
C28_RenderNeverClosesSession ==
    [][\A p \in Procs :
          (gp'[p] # gp[p] /\ gp[p].pc # "launching") =>
              /\ sessions' = sessions
              /\ \/ browserInstance' = browserInstance
                 \/ /\ browserInstance' = NULL
                    /\ browserInstance # NULL
                    /\ ~Connected(sessions, browserInstance)
                    /\ gp'[p].pc \in {"backoff", "thrown"}]_vars

\* Two calls, one after the other, returned a document each; the second made
\* one attempt on the session the first had launched, which is still cached
\* and connected.
C28_Witness ==
    \E p \in Procs : \E q \in Procs \ {p} :
        /\ gp[p].pc = "returned"
        /\ gp[p].attempts = 1
        /\ gp[p].launched = NULL
        /\ gp[q].pc = "returned"
        /\ Launched(sessions) = 1
        /\ browserInstance = 1
        /\ Connected(sessions, 1)

\* C29: no step of generatePDF outside getBrowserInstance's launch writes the
\* cached session reference.
C29_RendererNeverAssignsCache ==
    [][\A p \in Procs :
          (gp'[p] # gp[p] /\ gp[p].pc # "launching")
              => browserInstance' = browserInstance]_vars

\* C30: when the health probe of a newly launched session fails,
\* getBrowserInstance does not reject, and the value it returns (the cache as
\* it is at that moment) is the session it has just launched.
C30_ProbeFailureKeepsSession ==
    [][\A p \in Procs :
          (/\ gp[p].pc \in {"probeOpen", "probeClose"}
           /\ gp'[p].pc \notin {"probeOpen", "probeClose"}
           /\ (gp'[p].probe = "failed" \/ gp'[p].pc \in {"backoff", "thrown"}))
          => /\ gp'[p].pc # "gbiRejected"
             /\ browserInstance = gp[p].launched]_vars

\* C31: with calls made one after another, a session is launched only when
\* the cache is empty or its session reports disconnected, a health probe is
\* run only on a session launched in the same step, and an attempt that finds
\* the cached session connected takes that session and goes straight to
\* opening its page: while the cached session stays connected the number of
\* launches does not grow.
C31_SerialRendersReuseSession ==
    /\ [][Launched(sessions') > Launched(sessions)
             => ~Connected(sessions, browserInstance)]_vars
    /\ [][\A p \in Procs :
             (gp'[p].pc = "probeOpen" /\ gp[p].pc # "probeOpen")
             => Launched(sessions') = Launched(sessions) + 1]_vars
    /\ [][\A p \in Procs :
             (/\ gp[p].pc \in {"idle", "backoff"}
              /\ gp'[p].pc \notin {"idle", "backoff"}
              /\ Connected(sessions, browserInstance))
             => /\ gp'[p].pc = "newPage"
                /\ gp'[p].browser = browserInstance
                /\ browserInstance' = browserInstance
                /\ sessions' = sessions]_vars

\* Every call of the model has returned its document at the first attempt and
\* one session was launched in all, which is cached and connected.
C31_Witness ==
    /\ \A p \in Procs :
          /\ gp[p].pc = "returned"
          /\ gp[p].attempts = 1
          /\ gp[p].result = 1
          /\ gp[p].waits = <<>>
    /\ Launched(sessions) = 1
    /\ Connected(sessions, browserInstance)

\* The course code of the request has, somewhere, the eleven letters of
\* "sitpractice" in upper or lower case.
C32_HasSitPractice ==
    LET code == req.data.course_id.s
        word == <<"s", "i", "t", "p", "r", "a", "c", "t", "i", "c", "e">>
    IN  \E i \in 1..(Len(code) - 10) :
            \A k \in 1..11 :
                \/ code[i + k - 1] = word[k]
                \/ \E u \in 1..Len(UpperCase) :
                      code[i + k - 1] = UpperCase[u] /\ LowerCase[u] = word[k]

\* C32: whenever the acceptance-letter handler has built its letter, the
\* duration in it is the literal "12 Weeks" if the course code contains
\* "sitpractice" in any case, and otherwise the start date and the end date,
\* each formatted in UTC from the epoch milliseconds of its payload field.
C32_DurationOfLetter ==
    (req.flow = "loa" /\ req.pc \in {"render", "upload", "note"}) =>
        IF C32_HasSitPractice
        THEN req.letter.duration = <<"12 Weeks">>
        ELSE req.letter.duration =
                <<[ms |-> Number(req.data.course_start_date.s), timeZone |-> "UTC"],
                  [ms |-> Number(req.data.course_end_date.s), timeZone |-> "UTC"]>>

\* The letter of a B9-SitPractice course was rendered with "12 Weeks" and its
\* file is being uploaded.
C32_Witness ==
    /\ req.flow = "loa"
    /\ req.pc = "upload"
    /\ req.data.course_id = CodeB9SitPractice
    /\ req.letter.duration = <<"12 Weeks">>

\* C33: when the 'disconnected' event of a session is delivered to its
\* observer, the cached reference changes only if the cached session is the
\* session that disconnected.
C33_ObserverClearsOwnSessionOnly ==
    [][\A s \in Sessions :
          (sessions[s].pending /\ ~sessions'[s].pending)
          => (browserInstance' = browserInstance \/ browserInstance = s)]_vars

\* C34: the step in which cleanup() finishes (close has settled and the
\* finally block has run) takes out of the cache only the session close() was
\* called on: a different session found in the cache at that moment stays
\* cached unless it already reports disconnected.
C34_CleanupClearsClosedSessionOnly ==
    [][(cl.pc = "closing" /\ cl'.pc = "done") =>
          \/ browserInstance' = browserInstance
          \/ browserInstance = cl.target
          \/ ~Connected(sessions', browserInstance)]_vars

\* The pages opened by call p that are open now: the page it holds, and the
\* pages it left on a session after a rejected close, as long as their
\* session is connected.
C35_OpenPages(p) ==
    (IF gp[p].page # NULL /\ Connected(sessions, gp[p].browser) THEN 1 ELSE 0)
    + Cardinality({s \in gp[p].leaked : Connected(sessions, s)})

\* C35 as stated: close is invoked at most once on each page a call opened,
\* and at most one page opened by the call is open at any time.
C35_AtMostOnePageOpen ==
    \A p \in Procs : gp[p].closes <= 1 /\ C35_OpenPages(p) <= 1

\* C35, amended: close is invoked at most once on each page a call opened
\* (after the close of the error path the page is forgotten, so the final
\* cleanup finds none), and at most one page opened by the call is held by it,
\* that is, has not had close invoked on it yet; between attempts and after
\* the call none is held.
C35_AtMostOnePageHeld ==
    /\ [](\A p \in Procs :
            /\ gp[p].closes <= 1
            /\ gp[p].unclosed = IF gp[p].page = NULL THEN {} ELSE {gp[p].page}
            /\ gp[p].page \in {NULL, gp[p].attempts}
            /\ gp[p].closes = 1 => gp[p].page = NULL
            /\ gp[p].pc \in {"idle", "launching", "gbiRejected", "probeOpen", "probeClose",
                             "newPage", "backoff", "thrown", "returned"}
                  => gp[p].page = NULL)
    /\ [][\A p \in Procs :
             gp'[p].closes = gp[p].closes + 1
             => /\ gp[p].page # NULL
                /\ gp[p].pc \in {"catchClose", "finallyClose"}
                /\ gp'[p].page = NULL]_vars

\* The close of the first attempt's page was rejected with its session
\* connected, and the second attempt has opened its own page on that session.
C35_Witness ==
    \E p \in Procs :
        /\ gp[p].pc = "render"
        /\ gp[p].attempts = 2
        /\ gp[p].page = 2
        /\ gp[p].browser \in gp[p].leaked
        /\ Connected(sessions, gp[p].browser)

====
